---- MODULE Spec2Model ----
(***************************************************************************)
(* Model of living-lab-visualize: the paginated fetcher get_from_api, the  *)
(* table builders of common.py, plot_coverage and the entry script of      *)
(* bandwidth.py.                                                           *)
(*                                                                         *)
(* Conventions.  A timestamp is a record [h, m]: hour count and minute of  *)
(* the hour.  A ping observation time is [h, m, off]: wall clock h:m in    *)
(* the zone that is off hours from UTC.  A dataframe is a sequence of      *)
(* rows [key, id, value, upload_date]; a cell is <<v>> or NaN == <<>>.     *)
(* The kind-specific column (bandwidth, jitter, latency, state) is         *)
(* called value.  JSON null is the string "None".  The server numbers the  *)
(* records it sends: the i-th record of a run has id i.                    *)
(***************************************************************************)
EXTENDS Integers, Sequences, FiniteSets, TLC

\* ---------------------------------------------------------------- bounds
MaxRecords == 2
MaxPages == 2
MaxHour == 1

\* ------------------------------------------------------ program constants
\* common.py:17 TIMEZONE = 'America/Edmonton' (standard time: UTC-7)
TIMEZONE == -7

IPERF3_URL == "/iperf3/"
JITTER_URL == "/jitter/"
LATENCY_URL == "/sockperf/"
PING_URL == "/ping/"

\* ------------------------------------------------------------ the server
Hours == 0..MaxHour
MinuteMarks == {0, 30}
Timestamps == [h : Hours, m : MinuteMarks]
Nanopis == {11, 12}
Directions == {"up", "down"}
Bandwidths == {0, 50}
RawLatencies == {0, 1500}
Offsets == {0, 1}
PingStates == {"down"}
NextUrls == {"?page=a", "?page=b"}
Falsy == {"None", ""}
Statuses == {200, 503}

DenseBuilders == {"get_bandwidth_dataframe", "get_jitter_dataframe", "get_latency_dataframe"}
Builders == DenseBuilders \cup {"get_ping_dataframe"}

\* The record shapes of section "REST API boundary", without the id.
RecordsOf(f) ==
  CASE f = "get_bandwidth_dataframe" ->
         [upload_date : Timestamps, nanopi : Nanopis, direction : Directions, value : Bandwidths]
    [] f = "get_jitter_dataframe" ->
         [upload_date : Timestamps, nanopi : Nanopis, value : {3, 9}]
    [] f = "get_latency_dataframe" ->
         [upload_date : Timestamps, nanopi : Nanopis, value : RawLatencies]
    [] f = "get_ping_dataframe" ->
         [time : [h : Hours, m : MinuteMarks, off : Offsets], nanopi : Nanopis,
          value : PingStates, upload_date : {[h |-> MaxHour, m |-> 30]}]

PagesOf(f, room) == UNION {[1..n -> RecordsOf(f)] : n \in 0..room}

\* What the server may answer to a page request: a status, and with a success
\* a page of at most `room` records and a next link.  The i-th record the
\* server sends in a run has id i.  A failure carries no records.
WithIds(page, sent) == [i \in DOMAIN page |-> ("id" :> (sent + i)) @@ page[i]]

PageChoices(f, status, room) == IF status >= 400 THEN {<<>>} ELSE PagesOf(f, room)

NextChoices(status) == IF status >= 400 THEN {"None"} ELSE NextUrls \cup Falsy

\* What the device directory endpoint may answer: any status, with a JSON
\* array of devices, a JSON object (an error detail) or a body that is no JSON.
DirectoryBodies ==
  { [kind |-> "array", items |-> <<>>],
    [kind |-> "array", items |-> <<[id |-> 11, location_info |-> "lab"],
                                   [id |-> 12, location_info |-> "roof"]>>],
    [kind |-> "object", items |-> <<"detail">>],
    [kind |-> "object", items |-> <<>>],
    [kind |-> "text", items |-> <<>>] }

UrlOf(f) ==
  CASE f = "get_bandwidth_dataframe" -> IPERF3_URL
    [] f = "get_jitter_dataframe" -> JITTER_URL
    [] f = "get_latency_dataframe" -> LATENCY_URL
    [] f = "get_ping_dataframe" -> PING_URL

\* ---------------------------------------------------------- get_from_api
\* a fetcher that never looks at the status
raise_for_status_skipped(status) == FALSE

\* response.raise_for_status(): TRUE when it raises HTTPError
raise_for_status(status) == status >= 400

\* a loop that ends on None alone
TruthyNotNone(u) == u # "None"

\* `while url:` -- None and the empty string end the loop
Truthy(u) == u \notin Falsy

\* the params the caller may pass: None (no parameters, <<>>) or a filter
\* dict; get_ping_dataframe's default is {'state': 'down'}
ParamChoices(f) ==
  IF f = "get_ping_dataframe"
  THEN {<<>>, <<<<"state", "down">>>>}
  ELSE {<<>>}

\* no GET request is in flight
NoRequest == [url |-> "", params |-> <<>>, auth |-> ""]

\* the auth object handed to every requests.get
Auth == "HTTPBasicAuth"

\* a fetcher that passes params with every page request
RequestParamsAlways(n, p) == p

\* the params of the n-th requests.get: line 34 passes params, line 42 none
RequestParams(n, p) == IF n = 1 THEN p ELSE <<>>

\* a fetcher that keeps only the page it read last
AppendAllOverwrite(acc, page) == page

\* for result in json.get('results'): results.append(result)
RECURSIVE AppendAll(_, _)
AppendAll(acc, page) ==
  IF page = <<>> THEN acc ELSE AppendAll(Append(acc, Head(page)), Tail(page))

\* ------------------------------------------------------- pandas helpers
NaN == <<>>

\* Timestamp.floor('H')
Floor(t) == [h |-> t.h, m |-> 0]

\* a conversion that relabels the zone and keeps the wall clock
tz_replace(t) == [h |-> t.h, m |-> t.m, off |-> TIMEZONE]

\* Timestamp.tz_convert(TIMEZONE): the same instant, the wall clock of the zone
tz_convert(t) == [h |-> t.h - t.off + TIMEZONE, m |-> t.m, off |-> TIMEZONE]

\* index_tuples: the composite key of one record
IndexTuple(f, x) ==
  CASE f = "get_bandwidth_dataframe" -> <<Floor(x.upload_date), x.nanopi, x.direction>>
    [] f \in {"get_jitter_dataframe", "get_latency_dataframe"} -> <<Floor(x.upload_date), x.nanopi>>
    [] f = "get_ping_dataframe" -> <<tz_convert(x.time), x.nanopi>>

\* df.loc[:, 'latency'] / 1000, kept exact as quotient q and remainder r
Div1000(v) == [q |-> v \div 1000, r |-> v % 1000]

ValueOf(f, x) == IF f = "get_latency_dataframe" THEN Div1000(x.value) ELSE x.value

\* pd.DataFrame({...}, index=index): one row per record, in list order
DataFrame(f, results) ==
  [i \in DOMAIN results |->
     [key |-> IndexTuple(f, results[i]), id |-> <<results[i].id>>,
      value |-> <<ValueOf(f, results[i])>>, upload_date |-> <<results[i].upload_date>>]]

\* df.index.duplicated(keep='last')[i]
Duplicated(df, i) == \E j \in (i + 1)..Len(df) : df[j].key = df[i].key

\* df.loc[~df.index.duplicated(keep='last'), :]
RECURSIVE KeepFrom(_, _)
KeepFrom(df, i) ==
  IF i > Len(df) THEN <<>>
  ELSE IF Duplicated(df, i) THEN KeepFrom(df, i + 1)
  ELSE <<df[i]>> \o KeepFrom(df, i + 1)

DropDuplicates(df) == KeepFrom(df, 1)

\* pd.date_range(start, end=end, freq='H'): empty when end is before start
DateRange(start, end) ==
  IF end.h < start.h THEN <<>>
  ELSE [i \in 1..(end.h - start.h + 1) |-> [h |-> start.h + i - 1, m |-> 0]]

\* set(df.index.get_level_values('nanopi')), iterated in ascending order
NanopiSet(df) == {df[i].key[2] : i \in DOMAIN df}

RECURSIVE SortedSeq(_)
SortedSeq(S) ==
  IF S = {} THEN <<>>
  ELSE LET lo == CHOOSE x \in S : \A y \in S : x <= y
       IN <<lo>> \o SortedSeq(S \ {lo})

\* pd.MultiIndex.from_product of two or three iterables
RECURSIVE Flatten(_)
Flatten(ss) == IF ss = <<>> THEN <<>> ELSE Head(ss) \o Flatten(Tail(ss))

Product2(as, bs) ==
  Flatten([i \in DOMAIN as |-> [j \in DOMAIN bs |-> <<as[i], bs[j]>>]])

Product3(as, bs, cs) ==
  Flatten([i \in DOMAIN as |->
     Flatten([j \in DOMAIN bs |-> [k \in DOMAIN cs |-> <<as[i], bs[j], cs[k]>>]])])

\* the iterables and new_index of the re-indexing step
NewIndex(f, df) ==
  LET start == df[1].key[1]
      end == df[Len(df)].key[1]
      hours == DateRange(start, end)
      pis == SortedSeq(NanopiSet(df))
  IN IF f = "get_bandwidth_dataframe" THEN Product3(hours, pis, <<"up", "down">>)
     ELSE Product2(hours, pis)

\* df1.reindex(index=new_index)
Reindex(df1, new_index) ==
  [i \in DOMAIN new_index |->
     IF \E j \in DOMAIN df1 : df1[j].key = new_index[i]
     THEN df1[CHOOSE j \in DOMAIN df1 : df1[j].key = new_index[i]]
     ELSE [key |-> new_index[i], id |-> NaN, value |-> NaN, upload_date |-> NaN]]

\* ------------------------------------------------------------ bandwidth.py
\* the entry script's steps, lines 289-300
Steps ==
  << "nanopi_directory", "get_bandwidth_dataframe", "plot_average", "plot_24h_average",
     "plot_24h", "plot_dow_average", "plot_dow", "plot_all_average", "plot_all",
     "plot_coverage" >>

\* {nanopi.get('id'): nanopi.get('location_info') for nanopi in nanopis}
NanopiNames(items) ==
  [n \in {items[i].id : i \in DOMAIN items} |->
     items[CHOOSE i \in DOMAIN items :
             items[i].id = n /\ \A j \in DOMAIN items : items[j].id = n => j <= i].location_info]

\* the sorted labels unstack() gives the datetime index
RECURSIVE SortedHours(_)
SortedHours(S) ==
  IF S = {} THEN <<>>
  ELSE LET lo == CHOOSE x \in S : \A y \in S : x.h <= y.h
       IN <<lo>> \o SortedHours(S \ {lo})

\* one cell of df.loc[:, 'bandwidth'].unstack().unstack()
Unstacked(df, k) ==
  IF \E i \in DOMAIN df : df[i].key = k
  THEN df[CHOOSE i \in DOMAIN df : df[i].key = k].value
  ELSE NaN

\* .fillna(value=False) and then bool(x)
FillnaBool(cell) == IF cell = NaN THEN FALSE ELSE cell[1] # 0

\* plot_coverage's data of one direction: one list per nanopi column, one entry
\* per datetime; TRUE is drawn white ('present'), FALSE black ('missing')
CoverageData(df, direction) ==
  LET hours == SortedHours({df[i].key[1] : i \in DOMAIN df})
      pis == SortedSeq({df[i].key[2] : i \in DOMAIN df})
  IN [p \in DOMAIN pis |->
        [t \in DOMAIN hours |-> FillnaBool(Unstacked(df, <<hours[t], pis[p], direction>>))]]

\* -------------------------------------------------------------- the state
VARIABLES
  prog,      \* the function of common.py that is running
  pc,        \* its position: "idle", "get", "wait", "fetched", "done", "plot", "exit", "raised"
  error,     \* the exception that ended the run, "" when none
  url,       \* get_from_api's url
  nreq,      \* GET requests get_from_api issued so far
  results,   \* get_from_api's results
  arrived,   \* history: the results arrays of the pages served, concatenated
  failedAt,  \* history: the request answered with a non-success status, 0 if none
  params,    \* get_from_api's params argument
  callerParams, \* history: the params value the caller passed
  request,   \* the GET request in flight (its url, params and auth), or NoRequest
  served,    \* history: the page responses the server has sent
  lastNext,  \* history of the call to get_from_api: the next link of the page
             \* the server sent last; forgotten when the builder goes on
  df1,       \* the builder's de-duplicated frame
  table,     \* the builder's return value
  step,      \* bandwidth.py: the step that is running, 0 outside the script
  completed, \* bandwidth.py: the steps that completed, in order
  dirStatus, \* bandwidth.py: the status of the directory response, 0 before it
  nanopi_names, \* bandwidth.py: the id -> label mapping
  image      \* plot_coverage: the data drawn for 'up' and for 'down'

fetchVars == <<url, nreq, results, arrived, failedAt, params, callerParams, request, served>>
mainVars == <<step, completed, dirStatus, nanopi_names, image>>
vars == <<prog, pc, error, url, nreq, results, arrived, failedAt, df1, table,
          step, completed, dirStatus, nanopi_names, image,
          params, callerParams, request, served, lastNext>>

InitCommon ==
  /\ error = ""
  /\ url = UrlOf(prog)
  /\ nreq = 0
  /\ results = <<>>
  /\ arrived = <<>>
  /\ failedAt = 0
  /\ params \in ParamChoices(prog)
  /\ callerParams = params
  /\ request = NoRequest
  /\ served = 0
  /\ lastNext = "None"
  /\ df1 = <<>>
  /\ table = <<>>
  /\ completed = <<>>
  /\ dirStatus = 0
  /\ nanopi_names = <<>>
  /\ image = <<>>

\* a caller about to run one of the table builders of common.py
Init ==
  /\ prog \in Builders
  /\ pc = "get"
  /\ step = 0
  /\ InitCommon

\* bandwidth.py run as a script, credentials read
InitMain ==
  /\ prog = "get_bandwidth_dataframe"
  /\ pc = "idle"
  /\ step = 1
  /\ InitCommon

\* requests.get(url, ...): lines 34 and 42
Request ==
  /\ pc = "get"
  /\ nreq < MaxPages
  /\ nreq' = nreq + 1
  /\ request' = [url |-> url, params |-> RequestParams(nreq + 1, params), auth |-> Auth]
  /\ pc' = "wait"
  /\ UNCHANGED <<prog, error, url, results, arrived, failedAt, df1, table>>
  /\ UNCHANGED <<params, callerParams, served, lastNext>>
  /\ UNCHANGED mainVars

\* the response arrives: lines 35-39 and 43-47, and the loop test of line 41
Respond ==
  /\ pc = "wait"
  /\ \E status \in Statuses :
     \E next \in NextChoices(status) :
     \E page \in PageChoices(prog, status, MaxRecords - Len(arrived)) :
       /\ failedAt' = IF status >= 400 THEN nreq ELSE failedAt
       /\ arrived' = arrived \o WithIds(page, Len(arrived))
       /\ served' = served + 1
       /\ request' = NoRequest
       /\ lastNext' = next
       /\ IF raise_for_status(status)
          THEN /\ pc' = "raised"
               /\ error' = "HTTPError"
               /\ UNCHANGED <<url, results>>
          ELSE /\ results' = AppendAll(results, WithIds(page, Len(arrived)))
               /\ IF Truthy(next)
                  THEN pc' = "get" /\ url' = next
                  ELSE pc' = "fetched" /\ url' = "None"  \* return results
               /\ UNCHANGED error
  /\ UNCHANGED <<prog, nreq, df1, table, params, callerParams>>
  /\ UNCHANGED mainVars

\* get_bandwidth_dataframe, get_jitter_dataframe, get_latency_dataframe after
\* get_from_api returned
BuildDense ==
  /\ pc = "fetched"
  /\ prog \in DenseBuilders
  /\ LET df == DataFrame(prog, results)
     IN IF Len(df) = 0
        THEN \* df.index.get_level_values('datetime')[0] on an empty index
             /\ pc' = "raised"
             /\ error' = "IndexError"
             /\ UNCHANGED <<df1, table>>
        ELSE /\ df1' = DropDuplicates(df)
             /\ table' = Reindex(DropDuplicates(df), NewIndex(prog, df))
             /\ pc' = "done"
             /\ UNCHANGED error
  /\ lastNext' = "None"
  /\ UNCHANGED <<prog, fetchVars>>
  /\ UNCHANGED mainVars

\* get_ping_dataframe after get_from_api returned
BuildPing ==
  /\ pc = "fetched"
  /\ prog = "get_ping_dataframe"
  /\ table' = DataFrame(prog, results)
  /\ pc' = "done"
  /\ lastNext' = "None"
  /\ UNCHANGED <<prog, error, fetchVars, df1>>
  /\ UNCHANGED mainVars

\* bandwidth.py lines 289-290: requests.get(NANOPI_URL).json() and the
\* comprehension over it; the status of the response is not looked at
FetchDirectory ==
  /\ step = 1
  /\ pc = "idle"
  /\ \E status \in Statuses, body \in DirectoryBodies :
       /\ dirStatus' = status
       /\ IF body.kind = "text"
          THEN \* .json() cannot decode the body
               /\ pc' = "raised"
               /\ error' = "JSONDecodeError"
               /\ UNCHANGED <<step, completed, nanopi_names>>
          ELSE IF body.kind = "object" /\ body.items # <<>>
          THEN \* iterating a dict gives its keys: str has no get
               /\ pc' = "raised"
               /\ error' = "AttributeError"
               /\ UNCHANGED <<step, completed, nanopi_names>>
          ELSE /\ nanopi_names' = IF body.kind = "array" THEN NanopiNames(body.items) ELSE <<>>
               /\ completed' = Append(completed, Steps[1])
               /\ step' = 2
               /\ pc' = "get"
               /\ UNCHANGED error
  /\ UNCHANGED <<prog, fetchVars, df1, table, image, lastNext>>

\* bandwidth.py line 292: get_bandwidth_dataframe returned df
MainBuilt ==
  /\ step = 2
  /\ pc = "done"
  /\ completed' = Append(completed, Steps[2])
  /\ step' = 3
  /\ pc' = "plot"
  /\ UNCHANGED <<prog, error, fetchVars, df1, table, dirStatus, nanopi_names, image, lastNext>>

\* bandwidth.py lines 293-300: one renderer runs; it completes or raises
Plot ==
  /\ pc = "plot"
  /\ step \in 3..Len(Steps)
  /\ \E ok \in BOOLEAN :
       IF ok
       THEN /\ completed' = Append(completed, Steps[step])
            /\ image' = IF Steps[step] = "plot_coverage"
                        THEN [up |-> CoverageData(table, "up"), down |-> CoverageData(table, "down")]
                        ELSE image
            /\ IF step = Len(Steps)
               THEN pc' = "exit" /\ UNCHANGED step
               ELSE pc' = "plot" /\ step' = step + 1
            /\ UNCHANGED error
       ELSE /\ pc' = "raised"
            /\ error' = "RenderError"
            /\ UNCHANGED <<step, completed, image>>
  /\ UNCHANGED <<prog, fetchVars, df1, table, dirStatus, nanopi_names, lastNext>>

Next == Request \/ Respond \/ BuildDense \/ BuildPing

Spec == Init /\ [][Next]_vars

NextMain == FetchDirectory \/ Request \/ Respond \/ BuildDense \/ MainBuilt \/ Plot

SpecMain == InitMain /\ [][NextMain]_vars

\* ---------------------------------------------------------------- claims
\* a dense table builder returned its table
DenseDone == pc = "done" /\ prog \in DenseBuilders

\* minutes since hour 0
Minute(t) == t.h * 60 + t.m

\* the positions, in arrival order, of the fetched records with composite key k
SameKey(k) == {j \in DOMAIN arrived : IndexTuple(prog, arrived[j]) = k}

\* among them the record with the maximum upload_date, the last to arrive on a tie
Latest(k) ==
  CHOOSE j \in SameKey(k) :
    \A i \in SameKey(k) :
      \/ Minute(arrived[i].upload_date) < Minute(arrived[j].upload_date)
      \/ Minute(arrived[i].upload_date) = Minute(arrived[j].upload_date) /\ i <= j

\* C1: for every arrival order the de-duplicated frame holds, for each composite
\* key of a fetched record, exactly one row, and it is the record with the
\* maximum upload_date of that key (the last to arrive among equal upload_dates).
C1_DedupKeepsMaxUploadDate ==
  DenseDone =>
    \A j \in DOMAIN arrived :
      LET k == IndexTuple(prog, arrived[j])
      IN /\ Cardinality({i \in DOMAIN df1 : df1[i].key = k}) = 1
         /\ \A i \in DOMAIN df1 : df1[i].key = k => df1[i].id = <<arrived[Latest(k)].id>>

ObservedHours == {arrived[j].upload_date.h : j \in DOMAIN arrived}
ObservedNanopis == {arrived[j].nanopi : j \in DOMAIN arrived}
SpanHours ==
  {x \in Hours : /\ \E a \in ObservedHours : a <= x
                 /\ \E b \in ObservedHours : x <= b}

\* every hour from the minimum to the maximum observed hour x every observed
\* device (x both directions, for bandwidth)
DenseKeys ==
  IF prog = "get_bandwidth_dataframe"
  THEN {<<[h |-> x, m |-> 0], n, d>> : x \in SpanHours, n \in ObservedNanopis, d \in Directions}
  ELSE {<<[h |-> x, m |-> 0], n>> : x \in SpanHours, n \in ObservedNanopis}

\* C2: for every arrival order the key set of the returned table is the dense
\* product of the hours from the minimum to the maximum observed hour, the
\* observed devices and (for bandwidth) both directions, and the row count is
\* the product of the three sizes.
C2_DenseKeySetIsMinMaxProduct ==
  DenseDone =>
    /\ {table[i].key : i \in DOMAIN table} = DenseKeys
    /\ Len(table) = Cardinality(SpanHours) * Cardinality(ObservedNanopis)
                      * (IF prog = "get_bandwidth_dataframe" THEN 2 ELSE 1)

\* C3: the rows of the returned table that are not missing are exactly the rows
\* of the de-duplicated frame: none lost, none added.
C3_NonMissingRowsAreDedupedRows ==
  DenseDone =>
    /\ {table[i] : i \in {r \in DOMAIN table : table[r].id # NaN}} = {df1[j] : j \in DOMAIN df1}
    /\ Cardinality({r \in DOMAIN table : table[r].id # NaN}) = Len(df1)

\* get_from_api has returned its results to the builder
Returned == pc \in {"fetched", "done"} \/ error = "IndexError"

\* C4: when every request succeeded and the chain ended in a falsy next, the
\* list get_from_api returns is the concatenation of the results arrays of the
\* pages served, in page order and array order.
C4_ReturnsConcatenationOfPages == Returned => results = arrived

\* two pages were read and two different records returned
C4_Witness ==
  /\ pc = "fetched"
  /\ nreq = 2
  /\ Len(results) = 2
  /\ results[1].nanopi # results[2].nanopi

\* C5: once a page request was answered with a non-success status the call has
\* failed with an HTTP error at that request: no request was issued after it
\* and nothing was returned to the caller, who built no table.
C5_HttpErrorAborts ==
  failedAt > 0 =>
    /\ pc = "raised"
    /\ error = "HTTPError"
    /\ nreq = failedAt
    /\ df1 = <<>>
    /\ table = <<>>

\* the second page failed after the first page's record was accumulated
C5_Witness == failedAt = 2 /\ pc = "raised" /\ Len(results) = 1

\* where unstack() puts a key: its device's column and its hour's position
ColumnOf(n) == 1 + Cardinality({m \in {table[i].key[2] : i \in DOMAIN table} : m < n})
PositionOf(t) == 1 + Cardinality({x \in {table[i].key[1] : i \in DOMAIN table} : x.h < t.h})

\* C6: after plot_coverage the cell drawn for each key of the dense bandwidth
\* table is 'present' exactly when the table's bandwidth of the key is not
\* missing, whatever the bandwidth is, 0 included.
C6_CoverageIsPresence ==
  (pc = "exit") =>
    \A i \in DOMAIN table :
      image[table[i].key[3]][ColumnOf(table[i].key[2])][PositionOf(table[i].key[1])]
        = (table[i].value # NaN)

\* C7: the returned table has exactly one row for each key of the dense
\* product; the row is all missing exactly when no fetched record has the key,
\* and otherwise it is the row that survived de-duplication.
C7_OneRowPerDenseKey ==
  DenseDone =>
    \A k \in DenseKeys :
      /\ Cardinality({i \in DOMAIN table : table[i].key = k}) = 1
      /\ \A i \in DOMAIN table :
           table[i].key = k =>
             /\ (SameKey(k) = {}) <=>
                  (table[i].id = NaN /\ table[i].value = NaN /\ table[i].upload_date = NaN)
             /\ SameKey(k) # {} => \E j \in DOMAIN df1 : df1[j] = table[i]

\* C8: the script's steps complete in the fixed order, each after all earlier
\* ones, and a failure aborts the run at its step: a non-success status of the
\* directory response or of a page response leaves no later step executed.
C8_FixedOrderAbortAtFirstFailure ==
  /\ Len(completed) <= Len(Steps)
  /\ \A i \in DOMAIN completed : completed[i] = Steps[i]
  /\ pc # "exit" => step = Len(completed) + 1
  /\ pc = "exit" => completed = Steps
  /\ dirStatus >= 400 => pc = "raised" /\ completed = <<>> /\ nreq = 0
  /\ failedAt > 0 => pc = "raised" /\ Len(completed) = 1

\* C9: on an empty record sequence a dense builder returns an empty table and
\* does not fail.
C9_EmptyRecordsGiveEmptyTable ==
  (prog \in DenseBuilders /\ failedAt = 0 /\ arrived = <<>> /\ pc \in {"done", "raised"}) =>
    (pc = "done" /\ error = "" /\ table = <<>>)

\* C10: get_ping_dataframe returns one row per fetched record, in arrival
\* order, keyed by the record's time at the same instant on the TIMEZONE wall
\* clock (minutes kept, not floored) and by its nanopi.
C10_PingIsSparseLog ==
  (pc = "done" /\ prog = "get_ping_dataframe") =>
    /\ Len(table) = Len(arrived)
    /\ \A i \in DOMAIN table :
         /\ table[i].id = <<arrived[i].id>>
         /\ table[i].value = <<arrived[i].value>>
         /\ table[i].key[2] = arrived[i].nanopi
         /\ table[i].key[1].off = TIMEZONE
         /\ table[i].key[1].h - table[i].key[1].off = arrived[i].time.h - arrived[i].time.off
         /\ table[i].key[1].m = arrived[i].time.m

\* two records of one key (one instant, sent in two zones, at half past) both
\* stay in the table
C10_Witness ==
  /\ pc = "done"
  /\ prog = "get_ping_dataframe"
  /\ Len(table) = 2
  /\ table[1].key = table[2].key
  /\ table[1].key[1].m = 30
  /\ arrived[1].time.off # arrived[2].time.off

\* C11: get_from_api issues its GET requests one at a time, each after the
\* response to the one before was received and accumulated; the first goes to
\* the caller's url and each later one to the next link of the page before it;
\* it returns with the response whose next is falsy, after one request per
\* page served, and while the next links stay truthy it does not return.
C11_OneRequestPerPageUntilFalsyNext ==
  /\ nreq = served + (IF pc = "wait" THEN 1 ELSE 0)
  /\ pc = "wait" =>
       /\ results = arrived
       /\ request.url = (IF nreq = 1 THEN UrlOf(prog) ELSE lastNext)
  /\ pc = "fetched" => nreq = served /\ lastNext \in Falsy
  /\ (served >= 1 /\ failedAt = 0 /\ pc \in {"get", "wait", "fetched"}) =>
       (pc = "fetched" <=> lastNext \in Falsy)

\* a chain of two pages, ended by an empty-string next, read with two requests
C11_Witness ==
  /\ pc = "fetched"
  /\ nreq = 2
  /\ served = 2
  /\ lastNext = ""
  /\ Len(results) = 2

\* C12: the caller's params go, unmodified, with the first request only; each
\* later request goes to the next link the server sent, with the same auth
\* and no params; the caller's params value is never changed.
C12_ParamsOnlyWithFirstRequest ==
  /\ params = callerParams
  /\ pc = "wait" =>
       /\ request.auth = Auth
       /\ request.params = (IF nreq = 1 THEN callerParams ELSE <<>>)
       /\ nreq > 1 => request.url = lastNext /\ request.url \in NextUrls

\* the second request of a call with a filter: sent to the next link, no params
C12_Witness ==
  /\ pc = "wait"
  /\ nreq = 2
  /\ callerParams = <<<<"state", "down">>>>
  /\ request.params = <<>>
  /\ request.url = "?page=b"
====
